---- MODULE Spec2Model ----
(***************************************************************************)
(* cufile-python: the CuFileDriver singleton and the CuFile open/close     *)
(* state machine of src/cufile/cufile.py over the native bindings of       *)
(* src/cufile/bindings.py.                                                 *)
(*                                                                         *)
(* The OS (os.open / os.close) and libcufile are the environment: every    *)
(* call the code makes is appended to `trace` with its argument and its    *)
(* result, and the environment's answers (an OSError from os.open, the     *)
(* CUfileError status of a native call, the byte count of a transfer) are  *)
(* chosen nondeterministically.  os.close and the native read/write do not *)
(* raise.                                                                  *)
(***************************************************************************)
EXTENDS Integers, Sequences, FiniteSets

\* ---------------------------------------------------------------- bounds
\* CuFile objects the program creates.
MaxFiles == 2
\* Calls the program makes on its objects before it exits.
MaxOps == 4
\* Largest transfer size a read or write asks for.
MaxSize == 1

\* The threads that call CuFileDriver() at the same time.
MaxThreads == 2

Threads == 1..MaxThreads

Files == 1..MaxFiles

\* ---------------------------------------------------------------- values
\* Python's None, for a descriptor, a native handle or a driver reference.
None == -1

\* CUfileError statuses libcufile answers with (err, cu_err).
Statuses ==
    { [err |-> 0, cu_err |-> 0],
      [err |-> -2, cu_err |-> 100] }

\* The exception an operation ends with; NoExc when it returns normally.
NoExc == [type |-> "none", name |-> "", err |-> 0, cu_err |-> 0]

PyExc(type) == [type |-> type, name |-> "", err |-> 0, cu_err |-> 0]

\* The os.O_* flags of Linux that cufile.py names.
O_RDONLY == 0
O_WRONLY == 1
O_RDWR == 2
O_CREAT == 64
O_TRUNC == 512
O_APPEND == 1024
O_DIRECT == 16384

\* The device addresses, and the offsets (None: left out), the program passes
\* to read and write.
Addrs == {4096}

Offsets == { << None, None >>, << 1, None >>, << 1, 2 >> }

\* The six mode strings of _os_mode's table.
Modes == {"r", "r+", "w", "w+", "a", "a+"}

\* The programs considered.  MainProgram creates every CuFile, each in mode "r";
\* ModeProgram creates one CuFile, with any mode string (and with "x", which is
\* no mode), with and without direct I/O, on either of two paths.
MainProgram ==
    [files |-> Files, paths |-> {"/tmp/test.bin"}, modes |-> {"r"}, direct |-> {FALSE}]

ModeProgram ==
    [files |-> {1}, paths |-> {"/tmp/test.bin", "/tmp/t.bin"},
     modes |-> Modes \cup {"x"}, direct |-> BOOLEAN]

VARIABLES
    _instances,       \* _singleton's _instances[CuFileDriver]: a driver object or None
    drv,              \* the CuFileDriver objects created so far: "live" | "failed" | "dead"
    obj,              \* each CuFile object: "unborn" | "live" | "failed" | "dead"
    program,          \* what the program passes: the CuFiles it creates, their arguments
    _driver,          \* CuFile._driver
    _path,            \* CuFile._path ("" while the attribute is not set)
    _mode,            \* CuFile._mode ("" while the attribute is not set)
    _os_mode,         \* CuFile._os_mode: the flags for os.open (None while not set)
    _handle,          \* CuFile._handle: the OS descriptor or None
    _cu_file_handle,  \* CuFile._cu_file_handle: the native handle or None
    scope,            \* each CuFile: "out" of, or "in", a with-block
    openFds,          \* OS: the descriptors that are open
    registered,       \* libcufile: the <<native handle, descriptor>> pairs registered
    nextHandle,       \* libcufile: native handles handed out so far
    driverOpen,       \* libcufile: whether the driver is open
    count,            \* per CuFile, per callee: calls made so far
    dcount,           \* per driver callee: calls made so far
    trace,            \* the OS and native calls of the last operation, in order
    last,             \* the last operation: op, object, exception, ignored exception, result
    args,             \* the arguments the last operation was called with
    nOps,             \* operations so far
    exited,           \* the interpreter is shutting down
    threads           \* each thread inside _singleton's wrapper: where it is, what it holds

vars == << _instances, drv, obj, program, _driver, _path, _mode, _os_mode, _handle,
           _cu_file_handle, scope, openFds, registered, nextHandle, driverOpen, count,
           dcount, trace, last, args, nOps, exited, threads >>

\* The calls counted per CuFile: those that take and give back a resource.
Callees == {"os.open", "os.close", "cuFileHandleRegister", "cuFileHandleDeregister"}

DriverCallees == {"cuFileDriverOpen", "cuFileDriverClose"}

\* One call to the OS or to libcufile: callee, argument, result, native err.
Call(callee, arg, ret, err) == [call |-> callee, arg |-> arg, ret |-> ret, err |-> err]

\* How many calls to `callee` the sequence of calls t holds.
Calls(t, callee) == Cardinality({i \in DOMAIN t : t[i].call = callee})

\* count after the calls of t were made on behalf of CuFile f.
Counted(f, t) ==
    [count EXCEPT ![f] = [c \in Callees |-> count[f][c] + Calls(t, c)]]

DCounted(t) == [c \in DriverCallees |-> dcount[c] + Calls(t, c)]

Op(op, f, exc, ignored, ret) ==
    [op |-> op, f |-> f, exc |-> exc, ignored |-> ignored, ret |-> ret]

\* The descriptor os.open returns: the lowest one not open.
LowestFree(S) ==
    CHOOSE n \in 0..Cardinality(S) : n \notin S /\ \A m \in 0..(n - 1) : m \in S

\* ---------------------------------------------------------------- bindings.py
\* _ck: a non-zero err raises RuntimeError carrying err and cu_err.
_ck(status, name) ==
    IF status.err # 0
    THEN [type |-> "RuntimeError", name |-> name, err |-> status.err, cu_err |-> status.cu_err]
    ELSE NoExc

\* A cuFileHandleDeregister that hands the library's status to _ck.
cuFileHandleDeregister_checked(status) == _ck(status, "cuFileHandleDeregister")

\* cuFileHandleDeregister: calls the library and drops whatever it answers.
cuFileHandleDeregister(status) == NoExc

\* ---------------------------------------------------------------- cufile.py
is_open(f) == _handle[f] # None

InitOf(prog) ==
    /\ program = prog
    /\ _path = [f \in Files |-> ""]
    /\ _mode = [f \in Files |-> ""]
    /\ _os_mode = [f \in Files |-> None]
    /\ args = << >>
    /\ _instances = None
    /\ drv = << >>
    /\ obj = [f \in Files |-> "unborn"]
    /\ _driver = [f \in Files |-> None]
    /\ _handle = [f \in Files |-> None]
    /\ _cu_file_handle = [f \in Files |-> None]
    /\ scope = [f \in Files |-> "out"]
    /\ openFds = {}
    /\ registered = {}
    /\ nextHandle = 0
    /\ driverOpen = FALSE
    /\ count = [f \in Files |-> [c \in Callees |-> 0]]
    /\ dcount = [c \in DriverCallees |-> 0]
    /\ trace = << >>
    /\ last = Op("start", None, NoExc, NoExc, None)
    /\ nOps = 0
    /\ exited = FALSE
    /\ threads = [t \in Threads |-> [pc |-> "call", made |-> None, got |-> None]]

Init == InitOf(MainProgram)

InitModes == InitOf(ModeProgram)

\* ---------------------------------------------------------------- libcufile
\* The registrations left after the library answers a deregistration with `status`.
Deregistered(handle, status) ==
    IF status.err = 0 THEN {r \in registered : r[1] # handle} ELSE registered

\* ---------------------------------------------------------------- bindings.py
\* A cuFileDriverOpen that drops the library's status.
cuFileDriverOpen_unchecked(status) == NoExc

\* cuFileDriverOpen / cuFileDriverClose: the library's status goes through _ck.
cuFileDriverOpen(status) == _ck(status, "cuFileDriverOpen")

cuFileDriverClose(status) == _ck(status, "cuFileDriverClose")

\* cuFileHandleRegister(fd): the status goes through _ck; the new handle is returned.
cuFileHandleRegister(fd, status) ==
    [exc |-> _ck(status, "cuFileHandleRegister"),
     handle |-> IF status.err = 0 THEN nextHandle + 1 ELSE None]

\* ---------------------------------------------------------------- cufile.py
\* A wrapper that stores and returns the instance although cuFileDriverOpen failed.
CuFileDriver_keeps_failed(status) ==
    IF _instances = None
    THEN LET d == Len(drv) + 1
             e == cuFileDriverOpen(status)
         IN  [inst |-> d,
              drv |-> Append(drv, IF e = NoExc THEN "live" ELSE "failed"),
              opened |-> IF e = NoExc THEN TRUE ELSE driverOpen,
              trace |-> << Call("cuFileDriverOpen", None, None, status.err) >>,
              exc |-> NoExc,
              ret |-> d]
    ELSE [inst |-> _instances, drv |-> drv, opened |-> driverOpen, trace |-> << >>,
          exc |-> NoExc, ret |-> _instances]

\* _singleton's wrapper around CuFileDriver: what a call CuFileDriver() does when
\* the library answers cuFileDriverOpen with `status`.
CuFileDriver(status) ==
    IF _instances = None
    THEN LET d == Len(drv) + 1
             e == cuFileDriverOpen(status)
         IN  [inst |-> IF e = NoExc THEN d ELSE None,
              drv |-> Append(drv, IF e = NoExc THEN "live" ELSE "failed"),
              opened |-> IF e = NoExc THEN TRUE ELSE driverOpen,
              trace |-> << Call("cuFileDriverOpen", None, None, status.err) >>,
              exc |-> e,
              ret |-> IF e = NoExc THEN d ELSE None]
    ELSE [inst |-> _instances, drv |-> drv, opened |-> driverOpen, trace |-> << >>,
          exc |-> NoExc, ret |-> _instances]

\* Python's a | b on non-negative integers.
RECURSIVE BitOr(_, _)
BitOr(a, b) ==
    IF a = 0 THEN b
    ELSE IF b = 0 THEN a
    ELSE (IF a % 2 = 1 \/ b % 2 = 1 THEN 1 ELSE 0) + 2 * BitOr(a \div 2, b \div 2)

\* _os_mode with O_CREAT left out of the append modes.
_os_mode_append_no_creat(mode) ==
    CASE mode = "r" -> O_RDONLY
      [] mode = "r+" -> O_RDWR
      [] mode = "w" -> BitOr(BitOr(O_CREAT, O_WRONLY), O_TRUNC)
      [] mode = "w+" -> BitOr(BitOr(O_CREAT, O_RDWR), O_TRUNC)
      [] mode = "a" -> BitOr(O_WRONLY, O_APPEND)
      [] mode = "a+" -> BitOr(O_RDWR, O_APPEND)
      [] OTHER -> None

\* An _os_mode that takes a string not in the table for "r" (modes.get).
_os_mode_defaults(mode) ==
    CASE mode = "r+" -> O_RDWR
      [] mode = "w" -> BitOr(BitOr(O_CREAT, O_WRONLY), O_TRUNC)
      [] mode = "w+" -> BitOr(BitOr(O_CREAT, O_RDWR), O_TRUNC)
      [] mode = "a" -> BitOr(BitOr(O_CREAT, O_WRONLY), O_APPEND)
      [] mode = "a+" -> BitOr(BitOr(O_CREAT, O_RDWR), O_APPEND)
      [] OTHER -> O_RDONLY

\* _os_mode: modes[mode]; None stands for the KeyError of a string not in the table.
_os_mode_of(mode) ==
    CASE mode = "r" -> O_RDONLY
      [] mode = "r+" -> O_RDWR
      [] mode = "w" -> BitOr(BitOr(O_CREAT, O_WRONLY), O_TRUNC)
      [] mode = "w+" -> BitOr(BitOr(O_CREAT, O_RDWR), O_TRUNC)
      [] mode = "a" -> BitOr(BitOr(O_CREAT, O_WRONLY), O_APPEND)
      [] mode = "a+" -> BitOr(BitOr(O_CREAT, O_RDWR), O_APPEND)
      [] OTHER -> None

\* An __init__ that opens the file as it constructs the object.
__init__opens(f, path, mode, use_direct_io, status) ==
    LET d == CuFileDriver(status)
    IN  [d |-> d, exc |-> d.exc, state |-> IF d.exc = NoExc THEN "live" ELSE "failed",
         driver |-> d.ret, path |-> path, mode |-> mode, os_mode |-> _os_mode_of(mode),
         handle |-> LowestFree(openFds),
         trace |-> d.trace \o << Call("os.open", << path, _os_mode_of(mode) >>,
                                       LowestFree(openFds), 0) >>]

\* CuFile.__init__: acquires the driver, stores path and mode, looks the mode
\* up, ORs O_DIRECT in if asked to, and sets both handles to None.  An exception
\* ends it where it is raised, with the attributes set so far.
__init__(f, path, mode, use_direct_io, status) ==
    LET d == CuFileDriver(status)
        m == _os_mode_of(mode)
        unset == [d |-> d, exc |-> d.exc, state |-> "failed", driver |-> None,
                  path |-> "", mode |-> "", os_mode |-> None, handle |-> None,
                  trace |-> d.trace]
    IN  IF d.exc # NoExc THEN unset
        ELSE IF m = None
        THEN [unset EXCEPT !.exc = PyExc("KeyError"), !.driver = d.ret, !.path = path,
                           !.mode = mode]
        ELSE [unset EXCEPT !.state = "live", !.driver = d.ret, !.path = path,
                           !.mode = mode,
                           !.os_mode = IF use_direct_io THEN BitOr(m, O_DIRECT) ELSE m]

\* The state of CuFile f and its environment, as open and close return it.
Same(f) ==
    [handle |-> _handle[f], cu |-> _cu_file_handle[f], fds |-> openFds,
     reg |-> registered, next |-> nextHandle, trace |-> << >>, exc |-> NoExc]

\* An open() that goes on to the registration although os.open raised.
open_file_registers_anyway(f, osErr, status) ==
    LET fd == IF osErr THEN None ELSE LowestFree(openFds)
        fds == IF osErr THEN openFds ELSE openFds \cup {fd}
        r == cuFileHandleRegister(fd, status)
        calls == << Call("os.open", << _path[f], _os_mode[f] >>, fd, IF osErr THEN 1 ELSE 0),
                    Call("cuFileHandleRegister", fd, r.handle, status.err) >>
    IN  IF r.exc # NoExc
        THEN [Same(f) EXCEPT !.handle = fd, !.fds = fds, !.trace = calls, !.exc = r.exc]
        ELSE [Same(f) EXCEPT !.handle = fd, !.cu = r.handle, !.fds = fds,
                             !.reg = registered \cup { << r.handle, fd >> },
                             !.next = r.handle, !.trace = calls]

\* The two statements of CuFile.open after its guard: os.open fails (osErr) or
\* returns the lowest free descriptor, which is stored in _handle; the library
\* answers the registration with `status`, and only a registration that returns
\* stores _cu_file_handle.
open_file_and_register(f, osErr, status) ==
    IF osErr
    THEN [Same(f) EXCEPT !.trace = << Call("os.open", << _path[f], _os_mode[f] >>, None, 1) >>,
                         !.exc = PyExc("OSError")]
    ELSE LET fd == LowestFree(openFds)
             r == cuFileHandleRegister(fd, status)
             calls == << Call("os.open", << _path[f], _os_mode[f] >>, fd, 0),
                         Call("cuFileHandleRegister", fd, r.handle, status.err) >>
         IN  IF r.exc # NoExc
             THEN [Same(f) EXCEPT !.handle = fd, !.fds = openFds \cup {fd},
                                  !.trace = calls, !.exc = r.exc]
             ELSE [Same(f) EXCEPT !.handle = fd, !.cu = r.handle,
                                  !.fds = openFds \cup {fd},
                                  !.reg = registered \cup { << r.handle, fd >> },
                                  !.next = r.handle, !.trace = calls]

\* open() without its is_open guard.
open_reopens(f, osErr, status) == open_file_and_register(f, osErr, status)

\* CuFile.open: returns at once if is_open.
open(f, osErr, status) ==
    IF is_open(f) THEN Same(f) ELSE open_file_and_register(f, osErr, status)

\* The statements of close() with os.close ahead of the deregistration.
close_then_deregister(f, status) ==
    [Same(f) EXCEPT !.handle = None, !.cu = None,
                    !.fds = openFds \ {_handle[f]},
                    !.reg = Deregistered(_cu_file_handle[f], status),
                    !.trace = << Call("os.close", _handle[f], None, 0),
                                 Call("cuFileHandleDeregister", _cu_file_handle[f], None,
                                      status.err) >>]

\* A close() that deregisters and clears both fields without os.close.
close_keeps_descriptor(f, status) ==
    [Same(f) EXCEPT !.handle = None, !.cu = None,
                    !.reg = Deregistered(_cu_file_handle[f], status),
                    !.trace = << Call("cuFileHandleDeregister", _cu_file_handle[f],
                                      None, status.err) >>]

\* The four statements of CuFile.close after its guard: deregister, os.close,
\* clear both fields; an exception out of the deregistration would end it there.
deregister_and_close(f, status) ==
    LET e == cuFileHandleDeregister(status)
        dereg == Call("cuFileHandleDeregister", _cu_file_handle[f], None, status.err)
    IN  IF e # NoExc
        THEN [Same(f) EXCEPT !.reg = Deregistered(_cu_file_handle[f], status),
                             !.trace = << dereg >>, !.exc = e]
        ELSE [Same(f) EXCEPT !.handle = None, !.cu = None,
                             !.fds = openFds \ {_handle[f]},
                             !.reg = Deregistered(_cu_file_handle[f], status),
                             !.trace = << dereg, Call("os.close", _handle[f], None, 0) >>]

\* close() without its is_open guard.
close_unguarded(f, status) == deregister_and_close(f, status)

\* CuFile.close: returns at once if not is_open.
close(f, status) ==
    IF ~is_open(f) THEN Same(f) ELSE deregister_and_close(f, status)

\* A __del__ that does not close an open CuFile.
__del__leaks(f, status) ==
    IF obj[f] = "failed" THEN [Same(f) EXCEPT !.exc = PyExc("AttributeError")] ELSE Same(f)

\* CuFile.__del__: close() if is_open.  An object whose __init__ raised has no
\* _handle attribute, so is_open raises AttributeError.
__del__(f, status) ==
    IF obj[f] = "failed" THEN [Same(f) EXCEPT !.exc = PyExc("AttributeError")]
    ELSE IF is_open(f) THEN close(f, status)
    ELSE Same(f)

\* CuFileDriver.__del__: cuFileDriverClose(), whose RuntimeError it lets out.
CuFileDriver__del__(status) ==
    [exc |-> cuFileDriverClose(status),
     trace |-> << Call("cuFileDriverClose", None, None, status.err) >>]

\* A teardown whose exception reaches the caller.
Escalated(exc) == [exc |-> exc, ignored |-> NoExc]

\* What becomes of an exception raised inside a __del__ method: the interpreter
\* reports it ("Exception ignored in ...") and the caller sees none.
Unraisable(exc) == [exc |-> NoExc, ignored |-> exc]

\* CuFile.__enter__: open(), then return self.
__enter__(f, osErr, status) == open(f, osErr, status)

\* An __exit__ that closes only when the body returned.
__exit__skips(f, raised, status) == IF raised THEN Same(f) ELSE close(f, status)

\* CuFile.__exit__: close(), whether or not the body raised.
__exit__(f, raised, status) == close(f, status)

\* The value a parameter with a default takes: None marks an argument left out.
Arg(given, default) == IF given = None THEN default ELSE given

\* A read() without its is_open guard.
read_unguarded(f, dest, size, file_offset, dev_offset, n) ==
    [trace |-> << Call("cuFileRead",
                       << _cu_file_handle[f], dest, size, Arg(file_offset, 0),
                          Arg(dev_offset, 0) >>, n, 0) >>,
     exc |-> NoExc, ret |-> n]

\* A read() that hands the two offsets over in the wrong order.
read_swaps_offsets(f, dest, size, file_offset, dev_offset, n) ==
    IF ~is_open(f)
    THEN [trace |-> << >>, exc |-> PyExc("IOError"), ret |-> None]
    ELSE [trace |-> << Call("cuFileRead",
                            << _cu_file_handle[f], dest, size, Arg(dev_offset, 0),
                               Arg(file_offset, 0) >>, n, 0) >>,
          exc |-> NoExc, ret |-> n]

\* CuFile.read / CuFile.write: file_offset and dev_offset default to 0; n is the
\* byte count the library answers with, which is returned as it is.
read(f, dest, size, file_offset, dev_offset, n) ==
    IF ~is_open(f)
    THEN [trace |-> << >>, exc |-> PyExc("IOError"), ret |-> None]
    ELSE [trace |-> << Call("cuFileRead",
                            << _cu_file_handle[f], dest, size, Arg(file_offset, 0),
                               Arg(dev_offset, 0) >>, n, 0) >>,
          exc |-> NoExc, ret |-> n]

write(f, src, size, file_offset, dev_offset, n) ==
    IF ~is_open(f)
    THEN [trace |-> << >>, exc |-> PyExc("IOError"), ret |-> None]
    ELSE [trace |-> << Call("cuFileWrite",
                            << _cu_file_handle[f], src, size, Arg(file_offset, 0),
                               Arg(dev_offset, 0) >>, n, 0) >>,
          exc |-> NoExc, ret |-> n]

\* A get_handle that returns the native handle.
get_handle_native(f) == _cu_file_handle[f]

get_handle(f) == _handle[f]

\* ---------------------------------------------------------------- steps
\* The program may still call into its objects.
Running == ~exited /\ nOps < MaxOps

\* The bookkeeping of one operation on CuFile f that made the calls t.
Done(op, f, exc, ignored, ret, t) ==
    /\ trace' = t
    /\ last' = Op(op, f, exc, ignored, ret)
    /\ count' = IF f \in Files THEN Counted(f, t) ELSE count
    /\ dcount' = DCounted(t)

\* The state open(f, ...) or close(f, ...) leaves, r.
Left(f, r) ==
    /\ _handle' = [_handle EXCEPT ![f] = r.handle]
    /\ _cu_file_handle' = [_cu_file_handle EXCEPT ![f] = r.cu]
    /\ openFds' = r.fds
    /\ registered' = r.reg

\* CuFileDriver(): an acquisition of the driver outside any CuFile.
Acquire ==
    /\ Running
    /\ \E status \in Statuses :
        LET r == CuFileDriver(status)
        IN  /\ _instances' = r.inst
            /\ drv' = r.drv
            /\ driverOpen' = r.opened
            /\ Done("CuFileDriver", None, r.exc, NoExc, r.ret, r.trace)
    /\ nOps' = nOps + 1
    /\ UNCHANGED << threads, program, _path, _mode, _os_mode >>
    /\ args' = << >>
    /\ UNCHANGED << obj, _driver, _handle, _cu_file_handle, scope, openFds, registered,
                    nextHandle, exited >>

\* CuFile(path, mode, use_direct_io): the program constructs CuFile f.
Construct(f) ==
    /\ Running
    /\ f \in program.files
    /\ obj[f] = "unborn"
    /\ \E path \in program.paths, mode \in program.modes, use_direct_io \in program.direct,
          status \in Statuses :
        LET r == __init__(f, path, mode, use_direct_io, status)
        IN  /\ _instances' = r.d.inst
            /\ drv' = r.d.drv
            /\ driverOpen' = r.d.opened
            /\ obj' = [obj EXCEPT ![f] = r.state]
            /\ _driver' = [_driver EXCEPT ![f] = r.driver]
            /\ _path' = [_path EXCEPT ![f] = r.path]
            /\ _mode' = [_mode EXCEPT ![f] = r.mode]
            /\ _os_mode' = [_os_mode EXCEPT ![f] = r.os_mode]
            /\ _handle' = [_handle EXCEPT ![f] = r.handle]
            /\ openFds' = IF r.handle = None THEN openFds ELSE openFds \cup {r.handle}
            /\ args' = << path, mode, use_direct_io >>
            /\ Done("__init__", f, r.exc, NoExc, None, r.trace)
    /\ _cu_file_handle' = [_cu_file_handle EXCEPT ![f] = None]
    /\ nOps' = nOps + 1
    /\ UNCHANGED << threads, program, scope, registered, nextHandle, exited >>

Open(f) ==
    /\ Running
    /\ obj[f] = "live"
    /\ \E osErr \in BOOLEAN, status \in Statuses :
        LET r == open(f, osErr, status)
        IN  /\ Left(f, r)
            /\ nextHandle' = r.next
            /\ Done("open", f, r.exc, NoExc, None, r.trace)
    /\ nOps' = nOps + 1
    /\ UNCHANGED << threads, program, _path, _mode, _os_mode >>
    /\ args' = << >>
    /\ UNCHANGED << _instances, drv, obj, _driver, scope, driverOpen, exited >>

Close(f) ==
    /\ Running
    /\ obj[f] = "live"
    /\ \E status \in Statuses :
        LET r == close(f, status)
        IN  /\ Left(f, r)
            /\ Done("close", f, r.exc, NoExc, None, r.trace)
    /\ nOps' = nOps + 1
    /\ UNCHANGED << threads, program, _path, _mode, _os_mode >>
    /\ args' = << >>
    /\ UNCHANGED << _instances, drv, obj, _driver, scope, nextHandle, driverOpen, exited >>

\* CuFile.__enter__: the with-block is entered only if open() returns.
Enter(f) ==
    /\ Running
    /\ obj[f] = "live"
    /\ scope[f] = "out"
    /\ \E osErr \in BOOLEAN, status \in Statuses :
        LET r == __enter__(f, osErr, status)
        IN  /\ Left(f, r)
            /\ nextHandle' = r.next
            /\ scope' = [scope EXCEPT ![f] = IF r.exc = NoExc THEN "in" ELSE "out"]
            /\ Done("__enter__", f, r.exc, NoExc, None, r.trace)
    /\ nOps' = nOps + 1
    /\ UNCHANGED << threads, program, _path, _mode, _os_mode >>
    /\ args' = << >>
    /\ UNCHANGED << _instances, drv, obj, _driver, driverOpen, exited >>

\* CuFile.__exit__: runs when the with-block's body returns or raises (raised);
\* it returns None, so the body's exception goes on to the caller after close().
Leave(f) ==
    /\ ~exited
    /\ obj[f] = "live"
    /\ scope[f] = "in"
    /\ \E raised \in BOOLEAN, status \in Statuses :
        LET r == __exit__(f, raised, status)
            e == IF r.exc # NoExc THEN r.exc
                 ELSE IF raised THEN PyExc("ValueError") ELSE NoExc
        IN  /\ Left(f, r)
            /\ Done("__exit__", f, e, NoExc, None, r.trace)
    /\ scope' = [scope EXCEPT ![f] = "out"]
    /\ UNCHANGED << threads, program, _path, _mode, _os_mode >>
    /\ args' = << >>
    /\ UNCHANGED << _instances, drv, obj, _driver, nextHandle, driverOpen, nOps, exited >>

Read(f) ==
    /\ Running
    /\ obj[f] = "live"
    /\ \E buf \in Addrs, size \in 1..MaxSize, off \in Offsets :
        \E n \in 0..size :
            LET file_offset == off[1]
                dev_offset == off[2]
                r == read(f, buf, size, file_offset, dev_offset, n)
            IN  /\ Done("read", f, r.exc, NoExc, r.ret, r.trace)
                /\ args' = << buf, size, file_offset, dev_offset >>
    /\ nOps' = nOps + 1
    /\ UNCHANGED << threads, program, _path, _mode, _os_mode >>
    /\ UNCHANGED << _instances, drv, obj, _driver, _handle, _cu_file_handle, scope,
                    openFds, registered, nextHandle, driverOpen, exited >>

Write(f) ==
    /\ Running
    /\ obj[f] = "live"
    /\ \E buf \in Addrs, size \in 1..MaxSize, off \in Offsets :
        \E n \in 0..size :
            LET file_offset == off[1]
                dev_offset == off[2]
                r == write(f, buf, size, file_offset, dev_offset, n)
            IN  /\ Done("write", f, r.exc, NoExc, r.ret, r.trace)
                /\ args' = << buf, size, file_offset, dev_offset >>
    /\ nOps' = nOps + 1
    /\ UNCHANGED << threads, program, _path, _mode, _os_mode >>
    /\ UNCHANGED << _instances, drv, obj, _driver, _handle, _cu_file_handle, scope,
                    openFds, registered, nextHandle, driverOpen, exited >>

GetHandle(f) ==
    /\ Running
    /\ obj[f] = "live"
    /\ Done("get_handle", f, NoExc, NoExc, get_handle(f), << >>)
    /\ nOps' = nOps + 1
    /\ UNCHANGED << threads, program, _path, _mode, _os_mode >>
    /\ args' = << >>
    /\ UNCHANGED << _instances, drv, obj, _driver, _handle, _cu_file_handle, scope,
                    openFds, registered, nextHandle, driverOpen, exited >>

\* CuFile.__del__ runs when the object is unreachable (never inside its own
\* with-block); the interpreter reports and ignores what it raises.
CuFileDel(f) ==
    /\ obj[f] \in {"live", "failed"}
    /\ scope[f] = "out"
    /\ \E status \in Statuses :
        LET r == __del__(f, status)
            u == Unraisable(r.exc)
        IN  /\ Left(f, r)
            /\ Done("__del__", f, u.exc, u.ignored, None, r.trace)
    /\ obj' = [obj EXCEPT ![f] = "dead"]
    /\ _driver' = [_driver EXCEPT ![f] = None]
    /\ args' = << >>
    /\ UNCHANGED << threads, program, _path, _mode, _os_mode >>
    /\ UNCHANGED << _instances, drv, scope, nextHandle, driverOpen, nOps, exited >>

\* CuFileDriver.__del__: runs when the last reference to the object is dropped:
\* at once or later for an object whose __init__ raised (the exception's traceback
\* holds it), for the singleton only while the interpreter shuts down and no
\* CuFile holds it any more, and for an object that _instances no longer holds
\* once no thread holds it either.  The interpreter reports and ignores what it raises.
DriverDel(d) ==
    /\ d \in DOMAIN drv
    /\ \/ drv[d] = "failed"
       \/ /\ drv[d] = "live"
          /\ \A f \in Files : _driver[f] # d
          /\ \/ exited
             \/ /\ _instances # d
                /\ \A t \in Threads : threads[t].made # d /\ threads[t].got # d
    /\ \E status \in Statuses :
        LET r == CuFileDriver__del__(status)
            u == Unraisable(r.exc)
        IN  /\ Done("CuFileDriver.__del__", None, u.exc, u.ignored, None, r.trace)
            /\ driverOpen' = IF status.err = 0 THEN FALSE ELSE driverOpen
    /\ drv' = [drv EXCEPT ![d] = "dead"]
    /\ args' = << >>
    /\ UNCHANGED << threads, program, _path, _mode, _os_mode >>
    /\ UNCHANGED << _instances, obj, _driver, _handle, _cu_file_handle, scope, openFds,
                    registered, nextHandle, nOps, exited >>

\* The program ends (outside any with-block); the interpreter starts shutting down.
Exit ==
    /\ ~exited
    /\ \A f \in Files : scope[f] = "out"
    /\ exited' = TRUE
    /\ Done("exit", None, NoExc, NoExc, None, << >>)
    /\ UNCHANGED << threads, program, _path, _mode, _os_mode >>
    /\ args' = << >>
    /\ UNCHANGED << _instances, drv, obj, _driver, _handle, _cu_file_handle, scope,
                    openFds, registered, nextHandle, driverOpen, nOps >>

Next ==
    \/ Acquire
    \/ Exit
    \/ \E f \in Files :
        \/ Construct(f)
        \/ Open(f)
        \/ Close(f)
        \/ Enter(f)
        \/ Leave(f)
        \/ Read(f)
        \/ Write(f)
        \/ GetHandle(f)
        \/ CuFileDel(f)
    \/ \E d \in 1..MaxOps : DriverDel(d)

Spec == Init /\ [][Next]_vars

\* The same operations, of the program that constructs one CuFile in any mode.
SpecModes == InitModes /\ [][Next]_vars

\* ---------------------------------------------------------------- threads
\* _singleton's wrapper, statement by statement, as a thread runs it: the
\* interpreter may switch threads between any two of them, and the call into
\* libcufile releases the interpreter lock.
At(t, pc) == threads[t].pc = pc

Goto(t, pc, made, got) ==
    threads' = [threads EXCEPT ![t] = [pc |-> pc, made |-> made, got |-> got]]

\* if cls not in _instances
Test(t) ==
    /\ At(t, "call")
    /\ Goto(t, IF _instances = None THEN "construct" ELSE "return", None, None)
    /\ Done("wrapper", None, NoExc, NoExc, None, << >>)
    /\ args' = << >>
    /\ UNCHANGED << _instances, drv, driverOpen >>
    /\ UNCHANGED << program, obj, _driver, _path, _mode, _os_mode, _handle,
                    _cu_file_handle, scope, openFds, registered, nextHandle, nOps, exited >>

\* cls(): CuFileDriver.__init__ calls cuFileDriverOpen; its RuntimeError ends the
\* thread's call.
Make(t) ==
    /\ At(t, "construct")
    /\ \E status \in Statuses :
        LET d == Len(drv) + 1
            e == cuFileDriverOpen(status)
        IN  /\ drv' = Append(drv, IF e = NoExc THEN "live" ELSE "failed")
            /\ driverOpen' = IF e = NoExc THEN TRUE ELSE driverOpen
            /\ Goto(t, IF e = NoExc THEN "store" ELSE "raised",
                    IF e = NoExc THEN d ELSE None, None)
            /\ Done("CuFileDriver.__init__", None, e, NoExc, None,
                    << Call("cuFileDriverOpen", None, None, status.err) >>)
    /\ args' = << >>
    /\ UNCHANGED << _instances >>
    /\ UNCHANGED << program, obj, _driver, _path, _mode, _os_mode, _handle,
                    _cu_file_handle, scope, openFds, registered, nextHandle, nOps, exited >>

\* _instances[cls] = the object made
Store(t) ==
    /\ At(t, "store")
    /\ _instances' = threads[t].made
    /\ Goto(t, "return", None, None)
    /\ Done("wrapper", None, NoExc, NoExc, None, << >>)
    /\ args' = << >>
    /\ UNCHANGED << drv, driverOpen >>
    /\ UNCHANGED << program, obj, _driver, _path, _mode, _os_mode, _handle,
                    _cu_file_handle, scope, openFds, registered, nextHandle, nOps, exited >>

\* return _instances[cls]
Return(t) ==
    /\ At(t, "return")
    /\ Goto(t, "done", None, _instances)
    /\ Done("CuFileDriver", None, NoExc, NoExc, _instances, << >>)
    /\ args' = << >>
    /\ UNCHANGED << _instances, drv, driverOpen >>
    /\ UNCHANGED << program, obj, _driver, _path, _mode, _os_mode, _handle,
                    _cu_file_handle, scope, openFds, registered, nextHandle, nOps, exited >>

NextThreads ==
    \/ \E t \in Threads :
        \/ Test(t)
        \/ Make(t)
        \/ Store(t)
        \/ Return(t)
    \/ \E d \in 1..MaxThreads : DriverDel(d)

\* Threads that call CuFileDriver() at the same time, before any instance exists.
SpecThreads == Init /\ [][NextThreads]_vars


TypeOK ==
    /\ _instances \in {None} \cup DOMAIN drv
    /\ \A f \in Files : obj[f] \in {"unborn", "live", "failed", "dead"}
    /\ \A f \in Files : scope[f] \in {"out", "in"}
    /\ nOps \in 0..MaxOps

\* ================================================================ properties
\* The step is a call of open() on f, directly or through __enter__.
OpenStep(f) == last'.op \in {"open", "__enter__"} /\ last'.f = f /\ nOps' = nOps + 1

\* The step is a call of close() on f by the program.
CloseStep(f) == last'.op = "close" /\ last'.f = f /\ nOps' = nOps + 1

\* The step leaves CuFile f, and the calls counted for it, as they were.
Untouched(f) ==
    /\ _handle'[f] = _handle[f]
    /\ _cu_file_handle'[f] = _cu_file_handle[f]
    /\ count'[f] = count[f]
    /\ openFds' = openFds
    /\ registered' = registered

\* C1  Idempotent open: open() on a CuFile that is open makes no call at all,
\* returns normally and leaves descriptor and native handle as they were; and an
\* open() that follows an open() which opened the file and returned adds no call
\* to it, so the two together made one os.open and one cuFileHandleRegister.
C1_IdempotentOpen ==
    [][\A f \in Files :
        OpenStep(f) =>
            /\ is_open(f) =>
                /\ trace' = << >>
                /\ last'.exc = NoExc
                /\ Untouched(f)
                /\ is_open(f)'
            /\ (last.op = "open" /\ last.f = f /\ last.exc = NoExc /\ trace # << >>) =>
                /\ Calls(trace \o trace', "os.open") = 1
                /\ Calls(trace \o trace', "cuFileHandleRegister") = 1
                /\ count'[f] = count[f]]_vars

\* C1 witness: a second open() has just returned on a CuFile that one os.open and
\* one registration had opened.
C1_Witness ==
    /\ last.op = "open"
    /\ trace = << >>
    /\ is_open(last.f)
    /\ _cu_file_handle[last.f] # None
    /\ count[last.f]["os.open"] = 1
    /\ count[last.f]["cuFileHandleRegister"] = 1

\* C2  Idempotent close: close() on a CuFile that is not open makes no call and
\* leaves it closed; and a close() that follows a close() which closed the file
\* adds no call to it, so the two together made one cuFileHandleDeregister and
\* one os.close.
C2_IdempotentClose ==
    [][\A f \in Files :
        CloseStep(f) =>
            /\ ~is_open(f) =>
                /\ trace' = << >>
                /\ last'.exc = NoExc
                /\ Untouched(f)
                /\ ~is_open(f)'
            /\ (last.op = "close" /\ last.f = f /\ trace # << >>) =>
                /\ Calls(trace \o trace', "cuFileHandleDeregister") = 1
                /\ Calls(trace \o trace', "os.close") = 1
                /\ count'[f] = count[f]]_vars

\* C2 witness: a second close() has just returned on a CuFile that was opened
\* once and closed once.
C2_Witness ==
    /\ last.op = "close"
    /\ trace = << >>
    /\ ~is_open(last.f)
    /\ count[last.f]["os.open"] = 1
    /\ count[last.f]["cuFileHandleDeregister"] = 1
    /\ count[last.f]["os.close"] = 1

\* C3  Guarded register failure: an operation in which a registration failed
\* ends with the registration's RuntimeError, and has closed the descriptor it
\* had just opened, exactly once.
C3_GuardedRegisterFailure ==
    \A i \in DOMAIN trace :
        (trace[i].call = "cuFileHandleRegister" /\ trace[i].err # 0) =>
            /\ last.exc.type = "RuntimeError"
            /\ last.exc.name = "cuFileHandleRegister"
            /\ Calls(trace, "os.close") = 1
            /\ trace[i].arg \notin openFds

\* C4  Read/write precondition: read() and write() on a CuFile that is not open
\* (they leave _handle as it was) raise the not-open IOError and make no call.
C4_ReadWritePrecondition ==
    (last.op \in {"read", "write"} /\ ~is_open(last.f)) =>
        /\ last.exc = PyExc("IOError")
        /\ trace = << >>

\* C4 witness: a read() on a CuFile that was opened and closed again has failed.
C4_Witness ==
    /\ last.op = "read"
    /\ ~is_open(last.f)
    /\ count[last.f]["os.close"] = 1
    /\ last.exc.type = "IOError"

\* C5  Scoped use: leaving a with-block whose CuFile is open, whether the body
\* raised or returned, makes exactly one cuFileHandleDeregister and one os.close;
\* and every exit from a with-block leaves the CuFile closed.
C5_ScopedClose ==
    [][\A f \in Files :
        (last'.op = "__exit__" /\ last'.f = f) =>
            /\ ~is_open(f)'
            /\ scope'[f] = "out"
            /\ is_open(f) =>
                /\ Calls(trace', "cuFileHandleDeregister") = 1
                /\ Calls(trace', "os.close") = 1
                /\ _handle[f] \notin openFds']_vars

\* C5 witness: a with-block whose body raised has been left, with one
\* deregistration and one os.close.
C5_Witness ==
    /\ last.op = "__exit__"
    /\ last.exc.type = "ValueError"
    /\ Calls(trace, "cuFileHandleDeregister") = 1
    /\ Calls(trace, "os.close") = 1
    /\ ~is_open(last.f)

\* C6  Singleton driver: once the driver has been asked for, cuFileDriverOpen
\* has been called exactly once, every CuFileDriver() that returned gave the one
\* instance, and cuFileDriverClose has been called at most once.
C6_SingletonDriver ==
    drv # << >> =>
        /\ dcount["cuFileDriverOpen"] = 1
        /\ dcount["cuFileDriverClose"] <= 1
        /\ (last.op = "CuFileDriver" /\ last.exc = NoExc) => last.ret = _instances

\* C7  is_open holds exactly when descriptor and native handle are both present,
\* and neither is ever present without the other.
C7_OpenIffBoth ==
    \A f \in Files :
        obj[f] = "live" =>
            /\ is_open(f) <=> (_handle[f] # None /\ _cu_file_handle[f] # None)
            /\ (_handle[f] = None) <=> (_cu_file_handle[f] = None)

\* The step runs close() on f: called by the program, by __exit__ or by __del__.
ClosingStep(f) == last'.op \in {"close", "__exit__", "__del__"} /\ last'.f = f

\* C8  Ordering: an open() that finds the CuFile closed and gets a descriptor from
\* os.open calls os.open and then cuFileHandleRegister with that descriptor, and
\* nothing else; close() on an open CuFile calls cuFileHandleDeregister with its
\* native handle, then os.close with its descriptor, and nothing else, and clears
\* both fields.
C8_Ordering ==
    [][\A f \in Files :
        /\ (OpenStep(f) /\ ~is_open(f) /\ last'.exc.type # "OSError") =>
            /\ Len(trace') = 2
            /\ trace'[1].call = "os.open"
            /\ trace'[2].call = "cuFileHandleRegister"
            /\ trace'[2].arg = trace'[1].ret
            /\ _handle'[f] = trace'[1].ret
        /\ (ClosingStep(f) /\ is_open(f)) =>
            /\ Len(trace') = 2
            /\ trace'[1].call = "cuFileHandleDeregister"
            /\ trace'[1].arg = _cu_file_handle[f]
            /\ trace'[2].call = "os.close"
            /\ trace'[2].arg = _handle[f]
            /\ _handle'[f] = None
            /\ _cu_file_handle'[f] = None]_vars

\* C8 witness: a close() has deregistered a registered handle and then closed
\* the descriptor, and both fields are cleared.
C8_Witness ==
    /\ last.op = "close"
    /\ Len(trace) = 2
    /\ trace[1].call = "cuFileHandleDeregister"
    /\ trace[1].arg # None
    /\ trace[2].call = "os.close"
    /\ _handle[last.f] = None
    /\ _cu_file_handle[last.f] = None

\* C9  An operation in which a deregistration failed has still closed the
\* descriptor, exactly once, and left the CuFile closed with both fields cleared.
C9_CloseDespiteDeregisterFailure ==
    \A i \in DOMAIN trace :
        (trace[i].call = "cuFileHandleDeregister" /\ trace[i].err # 0) =>
            /\ Calls(trace, "os.close") = 1
            /\ \A j \in DOMAIN trace :
                trace[j].call = "os.close" => (j > i /\ trace[j].arg \notin openFds)
            /\ _handle[last.f] = None
            /\ _cu_file_handle[last.f] = None

\* C9 witness: a close() whose deregistration of a registered handle failed has
\* closed the descriptor.
C9_Witness ==
    /\ last.op = "close"
    /\ Len(trace) = 2
    /\ trace[1].call = "cuFileHandleDeregister"
    /\ trace[1].arg # None
    /\ trace[1].err # 0
    /\ trace[2].call = "os.close"
    /\ ~is_open(last.f)

\* C10  An operation in which a deregistration failed reports it: it raises, or
\* has the interpreter report, an error that names cuFileHandleDeregister.
C10_DeregisterFailureReported ==
    \A i \in DOMAIN trace :
        (trace[i].call = "cuFileHandleDeregister" /\ trace[i].err # 0) =>
            \/ last.exc.name = "cuFileHandleDeregister"
            \/ last.ignored.name = "cuFileHandleDeregister"

\* The flags of the mode table, by name, and their values.
FlagTable(mode) ==
    CASE mode = "r" -> {"read-only"}
      [] mode = "r+" -> {"read-write"}
      [] mode = "w" -> {"create", "write-only", "truncate"}
      [] mode = "w+" -> {"create", "read-write", "truncate"}
      [] mode = "a" -> {"create", "write-only", "append"}
      [] mode = "a+" -> {"create", "read-write", "append"}

FlagValue(name) ==
    CASE name = "read-only" -> O_RDONLY
      [] name = "write-only" -> O_WRONLY
      [] name = "read-write" -> O_RDWR
      [] name = "create" -> O_CREAT
      [] name = "truncate" -> O_TRUNC
      [] name = "append" -> O_APPEND
      [] name = "direct" -> O_DIRECT

\* The sum of the values of a set of flags (they share no bit).
RECURSIVE FlagSum(_)
FlagSum(names) ==
    IF names = {} THEN 0
    ELSE LET n == CHOOSE x \in names : TRUE
         IN  FlagValue(n) + FlagSum(names \ {n})

\* The step made a call to `callee` on behalf of CuFile f.
Called(f, callee) == last'.f = f /\ Calls(trace', callee) > 0

\* C11  Flag derivation: a construction that returns has stored the path, the
\* mode and exactly the flags of the mode's table entry, plus O_DIRECT if and
\* only if use_direct_io was passed; the stored path and flags never change
\* afterwards; and every os.open is called with the stored path and flags.
C11_FlagDerivation ==
    [][\A f \in Files :
        /\ (last'.op = "__init__" /\ last'.f = f /\ last'.exc = NoExc) =>
            /\ _path'[f] = args'[1]
            /\ _mode'[f] = args'[2]
            /\ _os_mode'[f] =
                   FlagSum(FlagTable(args'[2]) \cup (IF args'[3] THEN {"direct"} ELSE {}))
        /\ obj[f] = "live" => (_path'[f] = _path[f] /\ _os_mode'[f] = _os_mode[f])
        /\ Called(f, "os.open") =>
            \A i \in DOMAIN trace' :
                trace'[i].call = "os.open" => trace'[i].arg = << _path[f], _os_mode[f] >>
      ]_vars

\* C11 witness: a CuFile constructed in mode "a+" with direct I/O has been
\* opened with create + read-write + append + direct.
C11_Witness ==
    /\ last.op = "open"
    /\ _mode[last.f] = "a+"
    /\ Len(trace) = 2
    /\ trace[1].call = "os.open"
    /\ trace[1].arg[2] = FlagSum({"create", "read-write", "append", "direct"})

\* C12 as claimed: a construction with a string that is no mode ends with the
\* invalid-mode error (KeyError), leaves no usable CuFile and calls neither
\* os.open nor cuFileHandleRegister.
C12_InvalidModeError ==
    (last.op = "__init__" /\ args[2] \notin Modes) =>
        /\ last.exc.type = "KeyError"
        /\ obj[last.f] = "failed"
        /\ Calls(trace, "os.open") = 0
        /\ Calls(trace, "cuFileHandleRegister") = 0

\* C12 as amended: a construction with a string that is no mode fails, with
\* the RuntimeError of cuFileDriverOpen when the driver acquisition that comes
\* first fails and with KeyError otherwise; it leaves no usable CuFile and calls
\* neither os.open nor cuFileHandleRegister; and no call is ever made for a
\* CuFile whose construction failed.
C12_InvalidModeFails ==
    /\ (last.op = "__init__" /\ args[2] \notin Modes) =>
        /\ last.exc.type \in {"KeyError", "RuntimeError"}
        /\ last.exc.type = "RuntimeError" <=>
               (\E i \in DOMAIN trace :
                    trace[i].call = "cuFileDriverOpen" /\ trace[i].err # 0)
        /\ last.exc.type = "RuntimeError" => last.exc.name = "cuFileDriverOpen"
        /\ obj[last.f] = "failed"
        /\ Calls(trace, "os.open") = 0
        /\ Calls(trace, "cuFileHandleRegister") = 0
        /\ _handle[last.f] = None
    /\ \A f \in Files :
        (obj[f] = "failed" \/ _mode[f] \notin (Modes \cup {""})) =>
            \A c \in Callees : count[f][c] = 0

\* C12 witness: a construction with "x" has raised KeyError.
C12_Witness ==
    /\ last.op = "__init__"
    /\ args[2] = "x"
    /\ last.exc.type = "KeyError"
    /\ obj[last.f] = "failed"

\* C13  A construction that returns holds the driver instance, has called
\* neither os.open nor cuFileHandleRegister (nor any other counted callee), and
\* leaves the CuFile closed: no descriptor, no native handle.
C13_ConstructClosed ==
    (last.op = "__init__" /\ last.exc = NoExc) =>
        /\ obj[last.f] = "live"
        /\ _instances # None
        /\ _driver[last.f] = _instances
        /\ \A c \in Callees : Calls(trace, c) = 0 /\ count[last.f][c] = 0
        /\ ~is_open(last.f)
        /\ _handle[last.f] = None
        /\ _cu_file_handle[last.f] = None

\* C13 witness: the first construction has returned, having opened the driver.
C13_Witness ==
    /\ last.op = "__init__"
    /\ last.exc = NoExc
    /\ Calls(trace, "cuFileDriverOpen") = 1
    /\ obj[last.f] = "live"

\* C14  Driver before registration: a step that calls cuFileHandleRegister for a
\* CuFile finds that CuFile holding the singleton, which a cuFileDriverOpen that
\* succeeded has made; a construction whose cuFileDriverOpen fails raises and
\* yields no CuFile; and no registration is ever made for a CuFile whose
\* construction failed.
C14_DriverBeforeRegister ==
    [][\A f \in Files :
        /\ Called(f, "cuFileHandleRegister") =>
            /\ _instances \in DOMAIN drv
            /\ drv[_instances] = "live"
            /\ _driver[f] = _instances
            /\ dcount["cuFileDriverOpen"] >= 1
        /\ (last'.op = "__init__" /\ last'.f = f
              /\ \E i \in DOMAIN trace' :
                    trace'[i].call = "cuFileDriverOpen" /\ trace'[i].err # 0) =>
            /\ last'.exc.type = "RuntimeError"
            /\ obj'[f] = "failed"
        /\ obj'[f] = "failed" => count'[f]["cuFileHandleRegister"] = 0
      ]_vars

\* C14 witness: a registration has succeeded after a construction that opened
\* the driver.
C14_Witness ==
    /\ last.op = "open"
    /\ Calls(trace, "cuFileHandleRegister") = 1
    /\ _cu_file_handle[last.f] # None
    /\ dcount["cuFileDriverOpen"] >= 1

\* A CuFile holds a native handle that is registered.
HoldsRegistered(f) ==
    /\ obj[f] = "live"
    /\ \E r \in registered : r[1] = _cu_file_handle[f]

\* C15  The driver outlives the registered handles: cuFileDriverClose is never
\* called while a CuFile holds a registered native handle.
C15_DriverOutlivesHandles ==
    Calls(trace, "cuFileDriverClose") > 0 => \A f \in Files : ~HoldsRegistered(f)

\* C16  Destruction forces a close: __del__ of a constructed CuFile that is open
\* calls cuFileHandleDeregister with its native handle and os.close with its
\* descriptor, once each, and the descriptor is closed; __del__ of one that is
\* not open makes no call.
C16_DelCloses ==
    [][\A f \in Files :
        (last'.op = "__del__" /\ last'.f = f /\ obj[f] = "live") =>
            /\ is_open(f) =>
                /\ Calls(trace', "cuFileHandleDeregister") = 1
                /\ Calls(trace', "os.close") = 1
                /\ \A i \in DOMAIN trace' :
                    /\ trace'[i].call = "cuFileHandleDeregister" =>
                           trace'[i].arg = _cu_file_handle[f]
                    /\ trace'[i].call = "os.close" => trace'[i].arg = _handle[f]
                /\ _handle[f] \notin openFds'
                /\ ~is_open(f)'
            /\ ~is_open(f) => (trace' = << >> /\ Untouched(f))
      ]_vars

\* C16 witness: an open CuFile has been destroyed, with one deregistration of a
\* registered handle and one os.close.
C16_Witness ==
    /\ last.op = "__del__"
    /\ Len(trace) = 2
    /\ trace[1].call = "cuFileHandleDeregister"
    /\ trace[1].arg # None
    /\ trace[2].call = "os.close"
    /\ obj[last.f] = "dead"

\* C17  read and write on an open CuFile make exactly one call, cuFileRead or
\* cuFileWrite, with the CuFile's native handle and the caller's address, size,
\* file offset and device offset (0 for one left out), and return the byte count
\* the library answers with, also when it is less than the size asked for.
C17_TransferPassThrough ==
    (last.op \in {"read", "write"} /\ is_open(last.f)) =>
        /\ Len(trace) = 1
        /\ trace[1].call = (IF last.op = "read" THEN "cuFileRead" ELSE "cuFileWrite")
        /\ trace[1].arg =
               << _cu_file_handle[last.f], args[1], args[2],
                  IF args[3] = None THEN 0 ELSE args[3],
                  IF args[4] = None THEN 0 ELSE args[4] >>
        /\ last.ret = trace[1].ret
        /\ last.exc = NoExc

\* C17 witness: a read with a file offset and without a device offset has
\* returned fewer bytes than it asked for.
C17_Witness ==
    /\ last.op = "read"
    /\ is_open(last.f)
    /\ _cu_file_handle[last.f] # None
    /\ args[3] # None
    /\ args[4] = None
    /\ last.ret < args[2]

\* C18  get_handle returns the descriptor of an open CuFile, which is open, and
\* None for one that is not open; it makes no call and changes nothing.
C18_GetHandle ==
    [][\A f \in Files :
        (last'.op = "get_handle" /\ last'.f = f) =>
            /\ last'.ret = _handle[f]
            /\ is_open(f) => last'.ret \in openFds
            /\ ~is_open(f) => last'.ret = None
            /\ last'.exc = NoExc
            /\ trace' = << >>
            /\ Untouched(f)
            /\ UNCHANGED << _instances, drv, obj, _driver, _path, _mode, _os_mode,
                            _handle, _cu_file_handle, scope, nextHandle, driverOpen,
                            count, dcount >>
      ]_vars

\* C18 witness: get_handle has returned the descriptor of an open CuFile.
C18_Witness ==
    /\ last.op = "get_handle"
    /\ is_open(last.f)
    /\ _cu_file_handle[last.f] # None
    /\ last.ret = _handle[last.f]
    /\ last.ret \in openFds

\* C19  An acquisition whose cuFileDriverOpen answers a non-zero err raises the
\* RuntimeError of cuFileDriverOpen with the library's err and cu_err, returns
\* no instance and stores none; the construction it is part of yields no CuFile.
C19_DriverInitError ==
    \A i \in DOMAIN trace :
        (trace[i].call = "cuFileDriverOpen" /\ trace[i].err # 0) =>
            /\ last.exc.type = "RuntimeError"
            /\ last.exc.name = "cuFileDriverOpen"
            /\ \E st \in Statuses :
                /\ st.err = trace[i].err
                /\ last.exc.err = st.err
                /\ last.exc.cu_err = st.cu_err
            /\ last.ret = None
            /\ _instances = None
            /\ last.op = "__init__" =>
                (obj[last.f] = "failed" /\ _driver[last.f] = None)

\* C19 witness: a construction has failed with the driver-open error and its
\* two codes.
C19_Witness ==
    /\ last.op = "__init__"
    /\ last.exc.name = "cuFileDriverOpen"
    /\ last.exc.err # 0
    /\ last.exc.cu_err # 0
    /\ _instances = None

\* C20  A cuFileDriverClose that fails while a CuFileDriver is torn down raises
\* nothing to any caller: the interpreter reports the error and goes on.
C20_TeardownNotEscalated ==
    last.op = "CuFileDriver.__del__" =>
        /\ last.exc = NoExc
        /\ Len(trace) = 1
        /\ trace[1].err # 0 =>
            (last.ignored.type = "RuntimeError" /\ last.ignored.name = "cuFileDriverClose")
        /\ trace[1].err = 0 => last.ignored = NoExc

\* C20 witness: the singleton's cuFileDriverClose has failed during shutdown.
C20_Witness ==
    /\ last.op = "CuFileDriver.__del__"
    /\ exited
    /\ trace[1].err # 0
    /\ last.ignored.name = "cuFileDriverClose"
    /\ last.exc = NoExc

\* C21  Singleton creation under threads, as claimed: when threads call
\* CuFileDriver() at the same time with no instance stored and no
\* cuFileDriverOpen fails, cuFileDriverOpen is called at most once, exactly once
\* when a thread has its instance, and all threads get the same instance.
C21_SingletonUnderThreads ==
    (\A t \in Threads : ~At(t, "raised")) =>
        /\ dcount["cuFileDriverOpen"] <= 1
        /\ \A t \in Threads : At(t, "done") => dcount["cuFileDriverOpen"] = 1
        /\ \A t, u \in Threads :
            (At(t, "done") /\ At(u, "done")) => threads[t].got = threads[u].got

\* C22  An open() whose os.open fails raises the OSError, calls neither
\* cuFileHandleRegister nor os.close, and leaves the CuFile closed, without
\* descriptor and without native handle.
C22_OsOpenFailure ==
    [][\A f \in Files :
        (OpenStep(f) /\ \E i \in DOMAIN trace' :
                            trace'[i].call = "os.open" /\ trace'[i].err # 0) =>
            /\ last'.exc.type = "OSError"
            /\ Calls(trace', "os.open") = 1
            /\ Calls(trace', "cuFileHandleRegister") = 0
            /\ Calls(trace', "os.close") = 0
            /\ ~is_open(f)'
            /\ _handle'[f] = None
            /\ _cu_file_handle'[f] = None
            /\ openFds' = openFds
            /\ registered' = registered
      ]_vars

\* C22 witness: an open() has failed in os.open and left the CuFile closed.
C22_Witness ==
    /\ last.op = "open"
    /\ last.exc.type = "OSError"
    /\ Len(trace) = 1
    /\ trace[1].err # 0
    /\ ~is_open(last.f)

\* C23  State unchanged on failed registration, as claimed: after an open() in
\* which cuFileHandleRegister failed, the CuFile is closed: is_open is false and
\* get_handle returns None.
C23_ClosedAfterFailedRegister ==
    (last.op \in {"open", "__enter__"}
       /\ \E i \in DOMAIN trace :
            trace[i].call = "cuFileHandleRegister" /\ trace[i].err # 0) =>
        /\ ~is_open(last.f)
        /\ get_handle(last.f) = None

\* C24  No use of a dead native handle, as claimed: every cuFileRead,
\* cuFileWrite and cuFileHandleDeregister a CuFile calls is given a native handle
\* that is registered for the descriptor the CuFile holds, never None.
C24_NoDeadHandle ==
    [][\A f \in Files :
        last'.f = f =>
            \A i \in DOMAIN trace' :
                trace'[i].call \in {"cuFileRead", "cuFileWrite", "cuFileHandleDeregister"} =>
                    LET h == IF trace'[i].call = "cuFileHandleDeregister"
                             THEN trace'[i].arg ELSE trace'[i].arg[1]
                    IN  /\ h # None
                        /\ << h, _handle[f] >> \in registered
      ]_vars

\* C25  Driver close only after a driver open that succeeded, as claimed: the
\* destruction of a CuFileDriver object whose cuFileDriverOpen failed calls no
\* cuFileDriverClose.
C25_CloseOnlyAfterOpen ==
    [][\A d \in DOMAIN drv :
        (drv[d] = "failed" /\ drv'[d] # "failed") =>
            Calls(trace', "cuFileDriverClose") = 0
      ]_vars

\* os.open calls minus os.close calls, and registrations minus deregistrations,
\* of CuFile f.
HeldDescriptors(f) == count[f]["os.open"] - count[f]["os.close"]

HeldRegistrations(f) == count[f]["cuFileHandleRegister"] - count[f]["cuFileHandleDeregister"]

\* Every os.open of CuFile f returned (each was followed by a registration).
EveryOsOpenReturned(f) == count[f]["os.open"] = count[f]["cuFileHandleRegister"]

\* C26  Re-open and pairing: an open() that returns on a CuFile that was opened
\* and closed makes one os.open and one cuFileHandleRegister, which give a
\* descriptor and a native handle not in use, and leaves it open; and while no
\* os.open of a CuFile has failed, its os.open calls minus its os.close calls
\* and its registrations minus its deregistrations are both 1 while it is open
\* and both 0 while it is not.
C26_ReopenPairing ==
    [][\A f \in Files :
        /\ (OpenStep(f) /\ ~is_open(f) /\ count[f]["os.close"] >= 1
              /\ last'.exc = NoExc) =>
            /\ Calls(trace', "os.open") = 1
            /\ Calls(trace', "cuFileHandleRegister") = 1
            /\ is_open(f)'
            /\ _handle'[f] \notin openFds
            /\ _handle'[f] \in openFds'
            /\ \A r \in registered : r[1] # _cu_file_handle'[f]
            /\ << _cu_file_handle'[f], _handle'[f] >> \in registered'
        /\ EveryOsOpenReturned(f)' =>
            /\ is_open(f)' => (HeldDescriptors(f)' = 1 /\ HeldRegistrations(f)' = 1)
            /\ ~is_open(f)' => (HeldDescriptors(f)' = 0 /\ HeldRegistrations(f)' = 0)
      ]_vars

\* C26 witness: a CuFile that was opened and closed has been opened again.
C26_Witness ==
    /\ last.op = "open"
    /\ last.exc = NoExc
    /\ Len(trace) = 2
    /\ is_open(last.f)
    /\ count[last.f]["os.open"] = 2
    /\ count[last.f]["cuFileHandleRegister"] = 2
    /\ count[last.f]["os.close"] = 1
    /\ count[last.f]["cuFileHandleDeregister"] = 1

====
